---- MODULE Spec2Model ----
(***************************************************************************)
(* A model of the aso-chainlit-app repository:                             *)
(*   - the calculate tool of src/app.py (compile, the co_names check, eval *)
(*     under {"__builtins__": {}} and the allow-list, except Exception);   *)
(*   - the agent adapters of src/agent/app.py (get_mcp_tools,              *)
(*     create_agent_with_mcp, invoke_agent, get_agent_response);           *)
(*   - the chat hooks of src/chainlit.py and src/app/chainlit.py;          *)
(*   - the console loops of src/app.py and src/agent/app.py.               *)
(***************************************************************************)
EXTENDS Integers, Sequences, FiniteSets, TLC

VARIABLES
    calc,          \* the call of the calculate tool
    sessionLog,    \* per chat session: how its agent construction ended, and
                   \* the number of user messages its message hook handled
    frontend,      \* which chat front-end file serves the sessions
    userSession,   \* cl.user_session of each chat session: "agent" and "site"
    checkpointer,  \* the module's InMemorySaver: thread_id -> message history
    calls,         \* per caller, its latest call of get_agent_response
    shown,         \* per session, the latest cl.Message sent to its page
    windowSeen,    \* per session, the latest site a window message carried
    turns,         \* user messages handled so far
    console        \* the console loop: the program, where it is, its last line

vars ==
    <<calc, sessionLog, frontend, userSession, checkpointer, calls, shown, windowSeen, turns,
      console>>

calcVars == <<calc>>

chatVars ==
    <<sessionLog, frontend, userSession, checkpointer, calls, shown, windowSeen, turns>>

(***************************************************************************)
(* Bounds of the model.                                                    *)
(***************************************************************************)
\* How many times an expression is wrapped in a context when the inputs of
\* calculate are enumerated.
MaxWrap == 3

\* How many user messages are handled in one run of the chat model.
MaxTurns == 2

\* How many calls an importing interface makes in one run of the adapter model.
MaxApiCalls == 1

\* How many lines the console loop reads in one run.
MaxLines == 2

(***************************************************************************)
(* One record shape for parse-tree nodes and for Python values, so that    *)
(* any two of them can be compared.                                        *)
(***************************************************************************)
Node(k, n, d, id, msg, kids) ==
    [k |-> k, n |-> n, d |-> d, id |-> id, msg |-> msg, kids |-> kids]

\* Parse-tree nodes.
Num(n) == Node("num", n, 1, "", "", <<>>)
Name(id) == Node("name", 0, 1, id, "", <<>>)
Bin(op, l, r) == Node("bin", 0, 1, op, "", <<l, r>>)
Call(f, args) == Node("call", 0, 1, "", "", <<f>> \o args)
Lambda(body) == Node("lambda", 0, 1, "", "", <<body>>)
Attr(e, id) == Node("attr", 0, 1, id, "", <<e>>)
Tuple(items) == Node("tuple", 0, 1, "", "", items)

(***************************************************************************)
(* Lexemes.  An expression string is modelled by its sequence of lexemes;  *)
(* SourceText gives the string back, one blank between lexemes.            *)
(***************************************************************************)
NumVal == ("0" :> 0) @@ ("1" :> 1) @@ ("2" :> 2) @@ ("3" :> 3) @@ ("7" :> 7) @@ ("10" :> 10)

NumTokens == DOMAIN NumVal

Punctuation == {"+", "-", "*", "/", "(", ")", ",", ".", ":"}

Keywords == {"lambda"}

IsName(tok) == tok \notin NumTokens \cup Punctuation \cup Keywords

RECURSIVE SourceText(_)
SourceText(ts) ==
    IF ts = <<>> THEN ""
    ELSE IF Len(ts) = 1 THEN ts[1]
    ELSE ts[1] \o " " \o SourceText(Tail(ts))

Drop(ts, n) == SubSeq(ts, n + 1, Len(ts))

(***************************************************************************)
(* compile(expression, '<string>', 'eval'): Python's expression grammar,   *)
(* restricted to lambda, + - * /, calls, attribute references, parentheses,  *)
(* tuple displays, numbers and names.                                      *)
(***************************************************************************)
NoNode == Node("none", 0, 1, "", "", <<>>)

ParseFail == [ok |-> FALSE, tree |-> NoNode, args |-> <<>>, rest |-> <<>>]

Parsed(t, rest) == [ok |-> TRUE, tree |-> t, args |-> <<>>, rest |-> rest]

ParsedArgs(as, rest) == [ok |-> TRUE, tree |-> NoNode, args |-> as, rest |-> rest]

StartsWith(ts, tok) == ts # <<>> /\ Head(ts) = tok

\* One rule of the grammar applied to the lexemes ts; acc is what the rule
\* has read so far (the left operand of a "... rest" rule, the items of
\* "items").
\*   test     lambda is the loosest construct and takes the rest as its body
\*   sum      arith_expr: left-associative + and -
\*   product  term: left-associative * and /, binding tighter than + and -
\*   primary  calls and attribute references after an atom
\*   items    a non-empty comma-separated list closed by ")"; a trailing
\*            comma is fine
\*   atom     a number, a name, (), a parenthesised expression, a tuple display
RECURSIVE Parse(_, _, _)
Parse(rule, acc, ts) ==
    CASE rule = "test" ->
             IF StartsWith(ts, "lambda")
             THEN IF StartsWith(Tail(ts), ":")
                  THEN LET b == Parse("test", NoNode, Drop(ts, 2))
                       IN  IF b.ok THEN Parsed(Lambda(b.tree), b.rest) ELSE ParseFail
                  ELSE ParseFail
             ELSE Parse("sum", NoNode, ts)
      [] rule = "sum" ->
             LET l == Parse("product", NoNode, ts)
             IN  IF l.ok THEN Parse("sum rest", l.tree, l.rest) ELSE ParseFail
      [] rule = "sum rest" ->
             IF ts # <<>> /\ Head(ts) \in {"+", "-"}
             THEN LET r == Parse("product", NoNode, Tail(ts))
                  IN  IF r.ok THEN Parse("sum rest", Bin(Head(ts), acc, r.tree), r.rest)
                      ELSE ParseFail
             ELSE Parsed(acc, ts)
      [] rule = "product" ->
             LET l == Parse("primary", NoNode, ts)
             IN  IF l.ok THEN Parse("product rest", l.tree, l.rest) ELSE ParseFail
      [] rule = "product rest" ->
             IF ts # <<>> /\ Head(ts) \in {"*", "/"}
             THEN LET r == Parse("primary", NoNode, Tail(ts))
                  IN  IF r.ok
                      THEN Parse("product rest", Bin(Head(ts), acc, r.tree), r.rest)
                      ELSE ParseFail
             ELSE Parsed(acc, ts)
      [] rule = "primary" ->
             LET a == Parse("atom", NoNode, ts)
             IN  IF a.ok THEN Parse("primary rest", a.tree, a.rest) ELSE ParseFail
      [] rule = "primary rest" ->
             IF StartsWith(ts, "(")
             THEN IF StartsWith(Tail(ts), ")")
                  THEN Parse("primary rest", Call(acc, <<>>), Drop(ts, 2))
                  ELSE LET as == Parse("items", <<>>, Tail(ts))
                       IN  IF as.ok
                           THEN Parse("primary rest", Call(acc, as.args), as.rest)
                           ELSE ParseFail
             ELSE IF StartsWith(ts, ".")
             THEN IF Len(ts) >= 2 /\ IsName(ts[2])
                  THEN Parse("primary rest", Attr(acc, ts[2]), Drop(ts, 2))
                  ELSE ParseFail
             ELSE Parsed(acc, ts)
      [] rule = "items" ->
             LET e == Parse("test", NoNode, ts)
             IN  IF ~e.ok THEN ParseFail
                 ELSE IF StartsWith(e.rest, ")")
                 THEN ParsedArgs(Append(acc, e.tree), Tail(e.rest))
                 ELSE IF StartsWith(e.rest, ",")
                 THEN IF StartsWith(Tail(e.rest), ")")
                      THEN ParsedArgs(Append(acc, e.tree), Drop(e.rest, 2))
                      ELSE Parse("items", Append(acc, e.tree), Tail(e.rest))
                 ELSE ParseFail
      [] rule = "atom" ->
             IF ts = <<>> THEN ParseFail
             ELSE IF Head(ts) \in NumTokens
             THEN Parsed(Num(NumVal[Head(ts)]), Tail(ts))
             ELSE IF IsName(Head(ts)) THEN Parsed(Name(Head(ts)), Tail(ts))
             ELSE IF Head(ts) # "(" THEN ParseFail
             ELSE IF StartsWith(Tail(ts), ")") THEN Parsed(Tuple(<<>>), Drop(ts, 2))
             ELSE LET e == Parse("test", NoNode, Tail(ts))
                  IN  IF ~e.ok THEN ParseFail
                      ELSE IF StartsWith(e.rest, ")") THEN Parsed(e.tree, Tail(e.rest))
                      ELSE IF ~StartsWith(e.rest, ",") THEN ParseFail
                      ELSE IF StartsWith(Tail(e.rest), ")")
                      THEN Parsed(Tuple(<<e.tree>>), Drop(e.rest, 2))
                      ELSE LET more == Parse("items", <<e.tree>>, Tail(e.rest))
                           IN  IF more.ok THEN Parsed(Tuple(more.args), more.rest)
                               ELSE ParseFail

\* The code object's tree, or NoNode when compile raises SyntaxError.
Compile(expression) ==
    LET p == Parse("test", NoNode, expression)
    IN  IF p.ok /\ p.rest = <<>> THEN p.tree ELSE NoNode

(***************************************************************************)
(* code.co_names: the names the top-level code object loads (LOAD_NAME)    *)
(* and the attribute names it references (LOAD_ATTR), in order of first    *)
(* use.  A lambda body is a code object of its own, held in co_consts: its *)
(* names are not in the enclosing code object's co_names.                  *)
(***************************************************************************)
RECURSIVE NamesOf(_), NamesOfAll(_)

NamesOf(t) ==
    IF t.k = "name" THEN <<t.id>>
    ELSE IF t.k = "attr" THEN NamesOf(t.kids[1]) \o <<t.id>>
    ELSE IF t.k = "lambda" THEN <<>>
    ELSE NamesOfAll(t.kids)

NamesOfAll(ts) ==
    IF ts = <<>> THEN <<>> ELSE NamesOf(Head(ts)) \o NamesOfAll(Tail(ts))

RECURSIVE Dedupe(_, _)
Dedupe(seen, names) ==
    IF names = <<>> THEN seen
    ELSE IF \E i \in 1..Len(seen) : seen[i] = Head(names)
    THEN Dedupe(seen, Tail(names))
    ELSE Dedupe(Append(seen, Head(names)), Tail(names))

CoNames(code) == Dedupe(<<>>, NamesOf(code))

\* allowed_names with one entry left out.
AllowedNamesWithoutDivmod == {"abs", "round", "min", "max", "sum", "pow"}

\* allowed_names of calculate.
AllowedNames == {"abs", "round", "min", "max", "sum", "pow", "divmod"}

\* The test of the loop over code.co_names.
NameAllowed(name) == name \in AllowedNames \/ name \in {"__builtins__"}

\* The first name the loop raises NameError for, "" when it raises for none.
RECURSIVE FirstDisallowed(_)
FirstDisallowed(names) ==
    IF names = <<>> THEN ""
    ELSE IF ~NameAllowed(Head(names)) THEN Head(names)
    ELSE FirstDisallowed(Tail(names))

(***************************************************************************)
(* Python values.  A float is the exact fraction n/d in lowest terms with  *)
(* d > 0 (rounding to binary64 is not modelled); an int has d = 1.         *)
(***************************************************************************)
RECURSIVE GCD(_, _)
GCD(a, b) == IF b = 0 THEN a ELSE GCD(b, a % b)

AbsInt(n) == IF n < 0 THEN -n ELSE n

IntV(n) == Node("int", n, 1, "", "", <<>>)

FloatV(n, d) ==
    LET g == GCD(AbsInt(n), AbsInt(d))
        s == IF d < 0 THEN -1 ELSE 1
    IN  Node("float", s * (n \div g), s * (d \div g), "", "", <<>>)

TupleV(items) == Node("tuple", 0, 1, "", "", items)
FunctionV(body) == Node("function", 0, 1, "", "", <<body>>)
BuiltinV(id) == Node("builtin", 0, 1, id, "", <<>>)
DictV == Node("dict", 0, 1, "", "", <<>>)
ObjectV == Node("object", 0, 1, "", "", <<>>)
StrV(text) == Node("str", 0, 1, "", text, <<>>)

\* An exception in flight: id is its class, msg is str(e).
Raise(cls, msg) == Node("raise", 0, 1, cls, msg, <<>>)

\* A case of Python's arithmetic this model does not compute.
Unmodelled == Node("unmodelled", 0, 1, "", "", <<>>)

IsRaise(v) == v.k = "raise"
IsNumber(v) == v.k \in {"int", "float"}

\* The number n/d, a float when asked for, else an int (d divides n).
Number(isFloat, n, d) == IF isFloat THEN FloatV(n, d) ELSE IntV(n \div d)

Floor(n, d) == n \div d

\* round(): to the nearest integer, ties to the even one.
RoundHalfEven(n, d) ==
    LET f == Floor(n, d)
        twice == 2 * (n - f * d)
    IN  IF twice < d THEN f
        ELSE IF twice > d THEN f + 1
        ELSE IF f % 2 = 0 THEN f ELSE f + 1

Less(a, b) == a.n * b.d < b.n * a.d

TypeName(v) ==
    IF v.k = "builtin" THEN "builtin_function_or_method"
    ELSE IF v.k = "object" THEN "type" ELSE v.k

\* + - * / on two numbers.
Arith(op, a, b) ==
    LET fl == a.k = "float" \/ b.k = "float"
    IN  IF op = "+" THEN Number(fl, a.n * b.d + b.n * a.d, a.d * b.d)
        ELSE IF op = "-" THEN Number(fl, a.n * b.d - b.n * a.d, a.d * b.d)
        ELSE IF op = "*" THEN Number(fl, a.n * b.n, a.d * b.d)
        ELSE IF b.n = 0
        THEN Raise("ZeroDivisionError",
                   IF fl THEN "float division by zero" ELSE "division by zero")
        ELSE FloatV(a.n * b.d, a.d * b.n)

RECURSIVE Repeat(_, _)
Repeat(items, n) == IF n <= 0 THEN <<>> ELSE items \o Repeat(items, n - 1)

\* A binary operator on two values.
BinOp(op, a, b) ==
    IF IsNumber(a) /\ IsNumber(b) THEN Arith(op, a, b)
    ELSE IF op = "+" /\ a.k = "tuple" /\ b.k = "tuple" THEN TupleV(a.kids \o b.kids)
    ELSE IF op = "*" /\ a.k = "tuple" /\ b.k = "int" THEN TupleV(Repeat(a.kids, b.n))
    ELSE IF op = "*" /\ a.k = "int" /\ b.k = "tuple" THEN TupleV(Repeat(b.kids, a.n))
    ELSE Raise("TypeError",
               "unsupported operand type(s) for " \o op \o ": '" \o TypeName(a)
                   \o "' and '" \o TypeName(b) \o "'")

(***************************************************************************)
(* The seven functions of allowed_names.                                   *)
(***************************************************************************)
ArgCountError(id, args) ==
    Raise("TypeError", id \o "() got " \o ToString(Len(args)) \o " arguments")

\* What iterating over a value yields; only tuples and dicts are iterable.
IsIterable(v) == v.k \in {"tuple", "dict"}

NotIterable(v) == Raise("TypeError", "'" \o TypeName(v) \o "' object is not iterable")

RECURSIVE Best(_, _, _)
Best(isMax, best, items) ==
    IF items = <<>> THEN best
    ELSE LET x == Head(items)
             better == IF isMax THEN Less(best, x) ELSE Less(x, best)
         IN  Best(isMax, IF better THEN x ELSE best, Tail(items))

MinMaxOf(id, items) ==
    IF items = <<>> THEN Raise("ValueError", id \o "() arg is an empty sequence")
    ELSE IF Len(items) = 1 THEN items[1]
    ELSE IF \A i \in 1..Len(items) : IsNumber(items[i])
    THEN Best(id = "max", items[1], Tail(items))
    ELSE IF \A i \in 1..Len(items) : items[i].k = "tuple" THEN Unmodelled
    ELSE Raise("TypeError", "'<' not supported between instances")

ApplyMinMax(id, args) ==
    IF args = <<>> THEN ArgCountError(id, args)
    ELSE IF Len(args) = 1
    THEN IF IsIterable(args[1]) THEN MinMaxOf(id, args[1].kids) ELSE NotIterable(args[1])
    ELSE MinMaxOf(id, args)

RECURSIVE SumFrom(_, _)
SumFrom(acc, items) ==
    IF IsRaise(acc) \/ items = <<>> THEN acc
    ELSE SumFrom(BinOp("+", acc, Head(items)), Tail(items))

ApplySum(args) ==
    IF Len(args) \notin {1, 2} THEN ArgCountError("sum", args)
    ELSE IF ~IsIterable(args[1]) THEN NotIterable(args[1])
    ELSE SumFrom(IF Len(args) = 2 THEN args[2] ELSE IntV(0), args[1].kids)

RECURSIVE IntPow(_, _)
IntPow(b, e) == IF e = 0 THEN 1 ELSE b * IntPow(b, e - 1)

ApplyPow(args) ==
    IF Len(args) \notin {2, 3} THEN ArgCountError("pow", args)
    ELSE IF ~(IsNumber(args[1]) /\ IsNumber(args[2]))
    THEN Raise("TypeError", "unsupported operand type(s) for pow()")
    ELSE IF Len(args) = 3 \/ args[2].d # 1 THEN Unmodelled
    ELSE LET a == args[1]
             e == args[2].n
             fl == a.k = "float" \/ args[2].k = "float"
         IN  IF e >= 0 THEN Number(fl, IntPow(a.n, e), IntPow(a.d, e))
             ELSE IF a.n = 0
             THEN Raise("ZeroDivisionError",
                        "0.0 cannot be raised to a negative power")
             ELSE FloatV(IntPow(a.d, -e), IntPow(a.n, -e))

ApplyDivmod(args) ==
    IF Len(args) # 2 THEN ArgCountError("divmod", args)
    ELSE IF ~(IsNumber(args[1]) /\ IsNumber(args[2]))
    THEN Raise("TypeError", "unsupported operand type(s) for divmod()")
    ELSE LET a == args[1]
             b == args[2]
             fl == a.k = "float" \/ b.k = "float"
         IN  IF b.n = 0
             THEN Raise("ZeroDivisionError",
                        IF fl THEN "float divmod()"
                        ELSE "integer division or modulo by zero")
             ELSE LET s == IF b.n < 0 THEN -1 ELSE 1
                      q == Floor(s * a.n * b.d, s * a.d * b.n)
                  IN  TupleV(<<Number(fl, q, 1),
                               Number(fl, a.n * b.d - q * b.n * a.d, a.d * b.d)>>)

ApplyAbs(args) ==
    IF Len(args) # 1 THEN ArgCountError("abs", args)
    ELSE IF ~IsNumber(args[1])
    THEN Raise("TypeError", "bad operand type for abs(): '" \o TypeName(args[1]) \o "'")
    ELSE Number(args[1].k = "float", AbsInt(args[1].n), args[1].d)

ApplyRound(args) ==
    IF Len(args) \notin {1, 2} THEN ArgCountError("round", args)
    ELSE IF ~IsNumber(args[1])
    THEN Raise("TypeError", "type " \o TypeName(args[1]) \o " doesn't define __round__ method")
    ELSE IF Len(args) = 2 THEN Unmodelled
    ELSE IntV(RoundHalfEven(args[1].n, args[1].d))

Apply(id, args) ==
    IF id = "abs" THEN ApplyAbs(args)
    ELSE IF id = "round" THEN ApplyRound(args)
    ELSE IF id \in {"min", "max"} THEN ApplyMinMax(id, args)
    ELSE IF id = "sum" THEN ApplySum(args)
    ELSE IF id = "pow" THEN ApplyPow(args)
    ELSE ApplyDivmod(args)

(***************************************************************************)
(* eval(expression, {"__builtins__": {}}, allowed_names).                  *)
(*                                                                         *)
(* The top-level code object resolves a name in the locals (allowed_names),*)
(* then in the globals ({"__builtins__": {}}), then in the builtins ({}).  *)
(* A lambda body resolves its names in the globals and the builtins only:  *)
(* the locals of eval are not visible to it.                               *)
(*                                                                         *)
(* An attribute reference can reach any object of the interpreter          *)
(* (x.__class__ and on); such an object is the value ObjectV, and what a   *)
(* reference to or a call of it does is the parameter reach: it yields    *)
(* another object, raises an Exception, or raises SystemExit (a call of    *)
(* site's Quitter does).                                                   *)
(***************************************************************************)
Reaches == {"object", "Exception", "SystemExit"}

\* LOAD_NAME at the top level, LOAD_GLOBAL in a lambda body.
Lookup(id, scope) ==
    IF scope = "top" /\ id \in AllowedNames THEN BuiltinV(id)
    ELSE IF id = "__builtins__" THEN DictV
    ELSE Raise("NameError", "name '" \o id \o "' is not defined")

GetAttr(v, id, reach) ==
    IF id = "__class__" THEN ObjectV
    ELSE IF v.k = "object"
    THEN IF reach = "Exception"
         THEN Raise("AttributeError", "type object has no attribute '" \o id \o "'")
         ELSE ObjectV
    ELSE IF id = "real" /\ IsNumber(v) THEN v
    ELSE Raise("AttributeError",
               "'" \o TypeName(v) \o "' object has no attribute '" \o id \o "'")

RECURSIVE Eval(_, _, _), EvalAll(_, _, _, _)

CallValue(f, args, reach) ==
    IF f.k = "builtin" THEN Apply(f.id, args)
    ELSE IF f.k = "function"
    THEN IF args = <<>> THEN Eval(f.kids[1], "lambda", reach)
         ELSE Raise("TypeError",
                    "<lambda>() takes 0 positional arguments but "
                        \o ToString(Len(args)) \o " were given")
    ELSE IF f.k = "object"
    THEN IF reach = "object" THEN ObjectV
         ELSE IF reach = "Exception" THEN Raise("TypeError", "object is not callable")
         ELSE Raise("SystemExit", "None")
    ELSE Raise("TypeError", "'" \o TypeName(f) \o "' object is not callable")

Eval(t, scope, reach) ==
    IF t.k = "num" THEN IntV(t.n)
    ELSE IF t.k = "name" THEN Lookup(t.id, scope)
    ELSE IF t.k = "lambda" THEN FunctionV(t.kids[1])
    ELSE LET vs == EvalAll(t.kids, scope, reach, <<>>)
         IN  IF IsRaise(vs) THEN vs
             ELSE IF t.k = "bin" THEN BinOp(t.id, vs.kids[1], vs.kids[2])
             ELSE IF t.k = "attr" THEN GetAttr(vs.kids[1], t.id, reach)
             ELSE IF t.k = "call" THEN CallValue(vs.kids[1], Tail(vs.kids), reach)
             ELSE vs

\* The operands from left to right; the first exception ends the evaluation.
EvalAll(ts, scope, reach, acc) ==
    IF ts = <<>> THEN TupleV(acc)
    ELSE LET v == Eval(Head(ts), scope, reach)
         IN  IF IsRaise(v) THEN v ELSE EvalAll(Tail(ts), scope, reach, Append(acc, v))

\* The exception classes `except Exception` catches.
ExceptionClasses ==
    {"SyntaxError", "NameError", "TypeError", "ValueError", "ZeroDivisionError",
     "AttributeError"}

(***************************************************************************)
(* calculate(expression).  stage is where the body ended: "compile" (the   *)
(* SyntaxError of compile), "names" (the NameError of the co_names loop),  *)
(* "eval" (an exception of eval) or "returned" (the value of eval);        *)
(* evaluated says whether eval was called; outcome is "returns" with the   *)
(* result, or "raises" when an exception leaves calculate.                 *)
(***************************************************************************)
ErrorString(expression, e) ==
    StrV("Error calculating " \o SourceText(expression) \o ": " \o e.msg)

\* try: ... except Exception as e: return f"Error calculating ..."
Handle(expression, stage, evaluated, v) ==
    IF ~IsRaise(v)
    THEN [stage |-> stage, evaluated |-> evaluated, outcome |-> "returns", result |-> v]
    ELSE IF v.id \in ExceptionClasses
    THEN [stage |-> stage, evaluated |-> evaluated, outcome |-> "returns",
          result |-> ErrorString(expression, v)]
    ELSE [stage |-> stage, evaluated |-> evaluated, outcome |-> "raises", result |-> v]

Calculate(expression, reach) ==
    LET code == Compile(expression)
        bad == FirstDisallowed(CoNames(code))
    IN  IF code = NoNode
        THEN Handle(expression, "compile", FALSE, Raise("SyntaxError", "invalid syntax"))
        ELSE IF bad # ""
        THEN Handle(expression, "names", FALSE,
                    Raise("NameError", "Use of " \o bad \o " not allowed"))
        ELSE LET v == Eval(code, "top", reach)
             IN  Handle(expression, IF IsRaise(v) THEN "eval" ELSE "returned", TRUE, v)

(***************************************************************************)
(* The expressions calculate is called with: parse trees grown from a few  *)
(* seeds by wrapping them in contexts, written out as source text the way  *)
(* a caller writes them (parentheses where precedence needs them), and     *)
(* the truncations of such texts.                                          *)
(***************************************************************************)
Seeds ==
    {Num(0), Num(2), Name("abs"), Name("foo"), Name("__builtins__"),
     Call(Name("pow"), <<Num(2), Num(10)>>)}

Contexts ==
    {"abs(_)", "_+2", "7/_", "lambda:_", "_()", "_.__class__()", "divmod(7,_)"}

Wrap(c, t) ==
    CASE c = "abs(_)" -> Call(Name("abs"), <<t>>)
      [] c = "_+2" -> Bin("+", t, Num(2))
      [] c = "7/_" -> Bin("/", Num(7), t)
      [] c = "lambda:_" -> Lambda(t)
      [] c = "_()" -> Call(t, <<>>)
      [] c = "_.__class__()" -> Call(Attr(t, "__class__"), <<>>)
      [] c = "divmod(7,_)" -> Call(Name("divmod"), <<Num(7), t>>)

RECURSIVE TreesUpTo(_)
TreesUpTo(n) ==
    IF n = 0 THEN Seeds
    ELSE LET prev == TreesUpTo(n - 1)
         IN  prev \cup {Wrap(c, t) : c \in Contexts, t \in prev}

\* How tightly a node binds: lambda, + -, * /, call and attribute, atom.
Prec(t) ==
    IF t.k = "lambda" THEN 0
    ELSE IF t.k = "bin" THEN (IF t.id \in {"+", "-"} THEN 1 ELSE 2)
    ELSE IF t.k \in {"call", "attr"} THEN 3
    ELSE 4

NumToken(n) == CHOOSE tok \in NumTokens : NumVal[tok] = n

RECURSIVE Unparse(_, _), UnparseList(_)
Unparse(t, p) ==
    LET text ==
            IF t.k = "num" THEN <<NumToken(t.n)>>
            ELSE IF t.k = "name" THEN <<t.id>>
            ELSE IF t.k = "bin"
            THEN Unparse(t.kids[1], Prec(t)) \o <<t.id>> \o Unparse(t.kids[2], Prec(t) + 1)
            ELSE IF t.k = "call"
            THEN Unparse(t.kids[1], 3) \o <<"(">> \o UnparseList(Tail(t.kids)) \o <<")">>
            ELSE IF t.k = "attr" THEN Unparse(t.kids[1], 3) \o <<".", t.id>>
            ELSE IF t.k = "lambda" THEN <<"lambda", ":">> \o Unparse(t.kids[1], 0)
            ELSE IF Len(t.kids) = 1
            THEN <<"(">> \o Unparse(t.kids[1], 0) \o <<",", ")">>
            ELSE <<"(">> \o UnparseList(t.kids) \o <<")">>
    IN  IF Prec(t) < p THEN <<"(">> \o text \o <<")">> ELSE text

UnparseList(ts) ==
    IF ts = <<>> THEN <<>>
    ELSE IF Len(ts) = 1 THEN Unparse(ts[1], 0)
    ELSE Unparse(ts[1], 0) \o <<",">> \o UnparseList(Tail(ts))

\* A call not yet made: the expression, and the tree its writer meant
\* (NoNode for a truncated text).
Pending(meant, expression) ==
    [meant |-> meant, expr |-> expression, stage |-> "idle", evaluated |-> FALSE,
     outcome |-> "none", result |-> NoNode]

WellFormedCalls == {Pending(t, Unparse(t, 0)) : t \in TreesUpTo(MaxWrap)}

TruncatedCalls ==
    UNION {LET text == Unparse(t, 0)
           IN  {Pending(NoNode, SubSeq(text, 1, n)) : n \in 0..(Len(text) - 1)} :
           t \in TreesUpTo(MaxWrap - 2)}

InitCalc ==
    calc \in WellFormedCalls \cup TruncatedCalls

\* The agent calls the tool with the expression.
calculate ==
    /\ calc.stage = "idle"
    /\ \E reach \in Reaches :
           calc' = [meant |-> calc.meant, expr |-> calc.expr]
                       @@ Calculate(calc.expr, reach)
    /\ UNCHANGED <<chatVars, console>>

(***************************************************************************)
(* src/agent/app.py: the agent adapters.                                   *)
(***************************************************************************)
\* An optional string: None, or a str.
NoneStr == [some |-> FALSE, v |-> ""]
Some(v) == [some |-> TRUE, v |-> v]

\* Python's truth value of an optional string: None and "" are false.
Truthy(o) == o.some /\ o.v # ""

Sessions == {"s1", "s2"}
Callers == Sessions \cup {"api"}
ThreadIds == {"1", "2"}
Texts == {"hello", "2 + 2"}
ChatTexts == {"hello"}
Sites == {"example.com", "adobe.com"}

\* thread_id: str = "1" of invoke_agent and get_agent_response.
DefaultThreadId == "1"

\* An agent handle: who built it and the tools it was built with.
NoAgent == [id |-> "", tools |-> {}]
AgentBuiltFor(who, tools) == [id |-> who, tools |-> tools]

\* get_mcp_tools(): the tools of the MCP server, [] when the connection fails
\* (the exception is caught and printed as a warning).
GetMcpTools(server) == IF server = "up" THEN {"mcp_tool"} ELSE {}

\* create_agent_with_mcp(): all_tools = mcp_tools; the agent is built on the
\* module's checkpointer.  create_react_agent may raise (built |-> FALSE).
CreateAgentWithMcp(who, server, construction) ==
    LET mcp_tools == GetMcpTools(server)
        all_tools == mcp_tools
    IN  IF construction = "raises" THEN [built |-> FALSE, agent |-> NoAgent]
        ELSE [built |-> TRUE, agent |-> AgentBuiltFor(who, all_tools)]

\* A message of a history; origin is the caller whose call appended it.
Message(role, content, hasContent, origin) ==
    [role |-> role, content |-> content, hasContent |-> hasContent, origin |-> origin]

\* str(message).
Repr(m) == "{'role': '" \o m.role \o "', 'text': '" \o m.content \o "'}"

\* A structured result: the keys it has, and their values.
Result(keys, error, messages) == [keys |-> keys, error |-> error, messages |-> messages]

\* What an agent handle does with one call.  A LangGraph agent answers with
\* its messages or raises; an arbitrary handle may return any dict.
AgentReplies == {"message", "raises"}
Replies == AgentReplies \cup {"plain", "no messages", "empty messages", "error key"}

\* agent.ainvoke({"messages": [user message]}, {"configurable": {"thread_id":
\* thread_id}}) of a LangGraph agent built on `saver`: the history of the
\* thread is read, the user message and the reply are appended to it, the
\* state comes back.  The other replies are those of an arbitrary handle.
Ainvoke(saver, thread_id, user_input, caller, reply) ==
    LET seen == saver[thread_id]
        asked == Append(seen, Message("user", user_input, TRUE, caller))
        answered ==
            Append(asked, Message("assistant", "answer", reply = "message", caller))
    IN  IF reply = "raises"
        THEN [raised |-> TRUE, msg |-> "Connection error.", seen |-> seen,
              result |-> Result({}, "", <<>>), saver |-> saver]
        ELSE IF reply \in {"message", "plain"}
        THEN [raised |-> FALSE, msg |-> "", seen |-> seen,
              result |-> Result({"messages"}, "", answered),
              saver |-> [saver EXCEPT ![thread_id] = answered]]
        ELSE [raised |-> FALSE, msg |-> "", seen |-> seen,
              result |-> IF reply = "no messages" THEN Result({}, "", <<>>)
                         ELSE IF reply = "empty messages"
                         THEN Result({"messages"}, "", <<>>)
                         ELSE Result({"error", "messages"}, "agent said no", asked),
              saver |-> [saver EXCEPT ![thread_id] = asked]]

\* invoke_agent with the try statement left out.
InvokeAgentNoTry(user_input, agent, thread_id, saver, caller, reply) ==
    LET r == Ainvoke(saver, thread_id, user_input, caller, reply)
    IN  IF agent = NoAgent \/ r.raised
        THEN [outcome |-> "raises", faulted |-> TRUE, submitted |-> agent # NoAgent,
              seen |-> <<>>, agentResult |-> Result({}, "", <<>>),
              result |-> Result({}, "", <<>>), saver |-> saver]
        ELSE [outcome |-> "returns", faulted |-> FALSE, submitted |-> TRUE,
              seen |-> r.seen, agentResult |-> r.result, result |-> r.result,
              saver |-> r.saver]

\* invoke_agent(user_input, agent, thread_id): the agent's result, or
\* {"error": str(e)} when the call raises (agent.ainvoke of None raises
\* AttributeError before anything is submitted).
InvokeAgent(user_input, agent, thread_id, saver, caller, reply) ==
    LET r == Ainvoke(saver, thread_id, user_input, caller, reply)
    IN  IF agent = NoAgent
        THEN [outcome |-> "returns", faulted |-> TRUE, submitted |-> FALSE,
              seen |-> <<>>, agentResult |-> Result({}, "", <<>>),
              result |-> Result({"error"},
                                "'NoneType' object has no attribute 'ainvoke'", <<>>),
              saver |-> saver]
        ELSE IF r.raised
        THEN [outcome |-> "returns", faulted |-> TRUE, submitted |-> TRUE,
              seen |-> r.seen, agentResult |-> Result({}, "", <<>>),
              result |-> Result({"error"}, r.msg, <<>>), saver |-> r.saver]
        ELSE [outcome |-> "returns", faulted |-> FALSE, submitted |-> TRUE,
              seen |-> r.seen, agentResult |-> r.result, result |-> r.result,
              saver |-> r.saver]

\* The site template with the indentation of its second line left out.
EnhancedInputFlushLeft(user_input, site) ==
    IF Truthy(site) THEN "Site: " \o site.v \o "\n\nUser Question: " \o user_input
    ELSE user_input

\* get_agent_response: enhanced_input.
EnhancedInput(user_input, site) ==
    IF Truthy(site)
    THEN "Site: " \o site.v \o "\n\n        User Question: " \o user_input
    ELSE user_input

\* The formatter with the error test after the messages test.
FormatMessagesFirst(result) ==
    IF "messages" \in result.keys /\ result.messages # <<>>
    THEN LET final_message == result.messages[Len(result.messages)]
         IN  IF final_message.hasContent THEN final_message.content
             ELSE Repr(final_message)
    ELSE IF "error" \in result.keys THEN "Error: " \o result.error
    ELSE "No response generated."

\* get_agent_response: from the result to the text.
FormatResult(result) ==
    IF "error" \in result.keys THEN "Error: " \o result.error
    ELSE IF "messages" \in result.keys /\ result.messages # <<>>
    THEN LET final_message == result.messages[Len(result.messages)]
         IN  IF final_message.hasContent THEN final_message.content
             ELSE Repr(final_message)
    ELSE "No response generated."

\* A caller's record of get_agent_response(user_input, agent, thread_id, site).
NoCall ==
    [made |-> FALSE, agent |-> NoAgent, thread |-> "", text |-> "", site |-> NoneStr,
     input |-> "", heard |-> NoneStr, submitted |-> FALSE, seen |-> <<>>, outcome |-> "none",
     faulted |-> FALSE, agentResult |-> Result({}, "", <<>>),
     result |-> Result({}, "", <<>>), response |-> ""]

GetAgentResponse(user_input, agent, thread_id, site, saver, caller, reply) ==
    LET enhanced_input == EnhancedInput(user_input, site)
        r == InvokeAgent(enhanced_input, agent, thread_id, saver, caller, reply)
    IN  [call |-> [made |-> TRUE, agent |-> agent, thread |-> thread_id,
                   text |-> user_input, site |-> site, input |-> enhanced_input,
                   heard |-> NoneStr,
                   submitted |-> r.submitted, seen |-> r.seen, outcome |-> r.outcome,
                   faulted |-> r.faulted, agentResult |-> r.agentResult,
                   result |-> r.result,
                   response |-> IF r.outcome = "returns" THEN FormatResult(r.result)
                                ELSE ""],
         saver |-> r.saver]

(***************************************************************************)
(* src/chainlit.py and src/app/chainlit.py: the chat hooks.                *)
(***************************************************************************)
Frontends == {"src/chainlit.py", "src/app/chainlit.py"}

NoMessage == [author |-> "", content |-> ""]
Sent(author, content) == [author |-> author, content |-> content]

NotInitialized == "Agent not initialized. Please refresh the page and try again."

InitChat ==
    /\ frontend \in Frontends
    /\ checkpointer = [t \in ThreadIds |-> <<>>]
    /\ userSession = [s \in Sessions |-> [started |-> FALSE, agent |-> NoAgent,
                                          site |-> NoneStr]]
    /\ calls = [c \in Callers |-> NoCall]
    /\ shown = [s \in Sessions |-> NoMessage]
    /\ windowSeen = [s \in Sessions |-> NoneStr]
    /\ sessionLog = [s \in Sessions |-> [construction |-> "none", handled |-> 0]]
    /\ turns = 0

\* @cl.on_chat_start, the same in both files.
on_chat_start(s) ==
    /\ ~userSession[s].started
    /\ \E server \in {"up", "down"}, construction \in {"ok", "raises"} :
           LET made == CreateAgentWithMcp(s, server, construction)
           IN  IF made.built
               THEN /\ userSession' = [userSession EXCEPT ![s].started = TRUE,
                                                          ![s].agent = made.agent]
                    /\ sessionLog' = [sessionLog EXCEPT ![s].construction = "ok"]
                    /\ shown' = [shown EXCEPT ![s] =
                                     Sent("System", "Agent initialized successfully!")]
               ELSE /\ userSession' = [userSession EXCEPT ![s].started = TRUE]
                    /\ sessionLog' = [sessionLog EXCEPT ![s].construction = "raises"]
                    /\ shown' = [shown EXCEPT ![s] =
                                     Sent("System", "Failed to initialize agent")]
    /\ UNCHANGED <<calc, console, frontend, checkpointer, calls, windowSeen, turns>>

\* on_message with the site never passed on.
SessionSiteForgotten(s) == NoneStr

\* on_message: the site it passes to get_agent_response.  src/chainlit.py
\* passes cl.user_session.get("site"); src/app/chainlit.py passes none.
SessionSite(s) ==
    IF frontend = "src/chainlit.py" THEN userSession[s].site ELSE NoneStr

\* on_message with the test `if not agent` left out.
OnMessageUnguarded(s, text, reply) ==
    /\ userSession[s].started
    /\ turns < MaxTurns
    /\ turns' = turns + 1
    /\ sessionLog' = [sessionLog EXCEPT ![s].handled = @ + 1]
    /\ LET r == GetAgentResponse(text, userSession[s].agent, DefaultThreadId,
                                 SessionSite(s), checkpointer, s, reply)
       IN  /\ calls' = [calls EXCEPT ![s] = [r.call EXCEPT !.heard = windowSeen[s]]]
           /\ checkpointer' = r.saver
           /\ shown' = [shown EXCEPT ![s] =
                            IF r.call.outcome = "returns"
                            THEN Sent("Assistant", r.call.response)
                            ELSE Sent("Assistant", "Error")]
    /\ UNCHANGED <<calc, console, frontend, userSession, windowSeen>>

\* @cl.on_message.  On the way, calls[s].heard notes the latest site a window
\* message of the session had carried when the message was handled.
on_message(s, text, reply) ==
    /\ userSession[s].started
    /\ turns < MaxTurns
    /\ turns' = turns + 1
    /\ sessionLog' = [sessionLog EXCEPT ![s].handled = @ + 1]
    /\ LET agent == userSession[s].agent
           site == SessionSite(s)
       IN  IF agent = NoAgent
           THEN /\ shown' = [shown EXCEPT ![s] = Sent("System", NotInitialized)]
                /\ UNCHANGED <<checkpointer, calls>>
           ELSE LET r == GetAgentResponse(text, agent, DefaultThreadId, site,
                                          checkpointer, s, reply)
                IN  /\ calls' = [calls EXCEPT ![s] =
                                     [r.call EXCEPT !.heard = windowSeen[s]]]
                    /\ checkpointer' = r.saver
                    /\ shown' = [shown EXCEPT ![s] =
                                     IF r.call.outcome = "returns"
                                     THEN Sent("Assistant", r.call.response)
                                     ELSE Sent("Assistant", "Error")]
    /\ UNCHANGED <<calc, console, frontend, userSession, windowSeen>>

\* A window message: a dict with or without a "site", or another object.
WindowMessages ==
    {[dict |-> TRUE, site |-> Some(v)] : v \in Sites \cup {""}}
        \cup {[dict |-> TRUE, site |-> NoneStr], [dict |-> FALSE, site |-> NoneStr]}

\* The latest site a window message of the session carried.
Received(seen, message) ==
    IF message.dict /\ Truthy(message.site) THEN message.site ELSE seen

\* @cl.on_window_message of src/chainlit.py; src/app/chainlit.py registers no
\* such hook, and the message is dropped.
window_message(s, message) ==
    /\ userSession[s].started
    /\ windowSeen' = [windowSeen EXCEPT ![s] = Received(windowSeen[s], message)]
    /\ IF frontend # "src/chainlit.py" THEN UNCHANGED <<userSession, shown>>
       ELSE IF ~message.dict
       THEN /\ shown' = [shown EXCEPT ![s] =
                             Sent("System", "Error processing window message")]
            /\ UNCHANGED userSession
       ELSE IF Truthy(message.site)
       THEN /\ userSession' = [userSession EXCEPT ![s].site = message.site]
            /\ shown' = [shown EXCEPT ![s] =
                             Sent("System", "Site information received and stored: "
                                                \o message.site.v)]
       ELSE /\ shown' = [shown EXCEPT ![s] =
                             Sent("System",
                                  "No site information found in window message")]
            /\ UNCHANGED userSession
    /\ UNCHANGED <<calc, console, sessionLog, frontend, checkpointer, calls, turns>>

\* get_agent_response called by another interface that imports it, with any
\* agent handle, thread identifier and site.
api_get_agent_response(text, agent, thread_id, site, reply) ==
    /\ turns < MaxApiCalls
    /\ turns' = turns + 1
    /\ LET r == GetAgentResponse(text, agent, thread_id, site, checkpointer, "api", reply)
       IN  /\ calls' = [calls EXCEPT !["api"] = r.call]
           /\ checkpointer' = r.saver
    /\ UNCHANGED <<calc, console, sessionLog, frontend, userSession, shown, windowSeen>>

\* The handles such an interface holds: none, or an agent it had built.
ApiAgents == {NoAgent, CreateAgentWithMcp("api", "up", "ok").agent}

ApiSites == {NoneStr, Some(""), Some("example.com")}

\* The thread "1" after an earlier exchange of the same interface.
EarlierExchange ==
    Ainvoke([t \in ThreadIds |-> <<>>], DefaultThreadId, "hi", "api", "message").saver

NextChat ==
    \/ \E s \in Sessions : on_chat_start(s)
    \/ \E s \in Sessions, text \in ChatTexts, reply \in AgentReplies :
           on_message(s, text, reply)
    \/ \E s \in Sessions, message \in WindowMessages : window_message(s, message)

NextAdapter ==
    \E text \in Texts, agent \in ApiAgents, thread_id \in ThreadIds, site \in ApiSites,
       reply \in Replies :
        api_get_agent_response(text, agent, thread_id, site, reply)

(***************************************************************************)
(* The console loops: main() of src/app.py and of src/agent/app.py.        *)
(***************************************************************************)
ConsoleApps == {"src/app.py", "src/agent/app.py"}

\* A line of input, character by character.
Lines ==
    {<<"q", "u", "i", "t">>, <<"Q", "U", "I", "T">>, <<"Q", "u", "i", "t">>,
     <<"e", "x", "i", "t">>, <<"E", "x", "I", "t">>, <<"q">>, <<"Q">>, <<>>,
     <<"h", "i">>, <<"q", "u", "i", "t", " ">>, <<" ", "q">>, <<"q", "u", "i", "t", "s">>,
     <<"e", "x">>}

\* str.lower(), on the characters of Lines.
LowerOf ==
    ("Q" :> "q") @@ ("U" :> "u") @@ ("I" :> "i") @@ ("T" :> "t") @@ ("E" :> "e")
        @@ ("X" :> "x") @@ ("H" :> "h") @@ ("S" :> "s")

\* The exit test with .lower() left out.
LowerForgotten(line) == line

Lower(line) ==
    [i \in 1..Len(line) |-> IF line[i] \in DOMAIN LowerOf THEN LowerOf[line[i]] ELSE line[i]]

\* ["quit", "exit", "q"]
ExitCommands == {<<"q", "u", "i", "t">>, <<"e", "x", "i", "t">>, <<"q">>}

IsExitCommand(user_input) == Lower(user_input) \in ExitCommands

\* What the last pass through the loop did.
NoEvent == [event |-> "none", line |-> <<>>, called |-> FALSE, failed |-> FALSE]

InitConsole ==
    /\ console \in {[app |-> a, pc |-> "input", reads |-> 0, asked |-> <<>>,
                        last |-> NoEvent] : a \in ConsoleApps}

\* One pass through `while True`: input() gives a line; an exit command
\* breaks; any other line goes to stream_agent_updates, which catches the
\* Exception the agent call raises, and the loop goes on.  A Ctrl-C while the
\* agent call runs is no Exception: it leaves stream_agent_updates and the
\* KeyboardInterrupt handler of the loop breaks.  asked is the user messages
\* the agent was invoked with, in order.
read_line(user_input, agentCall) ==
    /\ console.pc = "input"
    /\ console.reads < MaxLines
    /\ IF IsExitCommand(user_input)
       THEN console' = [console EXCEPT !.pc = "exited", !.reads = @ + 1,
                            !.last = [event |-> "line", line |-> user_input,
                                      called |-> FALSE, failed |-> FALSE]]
       ELSE console' = [console EXCEPT
                            !.pc = IF agentCall = "interrupted" THEN "exited"
                                   ELSE "input",
                            !.reads = @ + 1,
                            !.asked = Append(@, user_input),
                            !.last = [event |-> IF agentCall = "interrupted"
                                                THEN "KeyboardInterrupt" ELSE "line",
                                      line |-> user_input, called |-> TRUE,
                                      failed |-> agentCall = "raises"]]
    /\ UNCHANGED <<calc, chatVars>>

\* input() raises: KeyboardInterrupt (Ctrl-C) or EOFError (end of input).
\* Both handlers break.
input_raises(exception) ==
    /\ console.pc = "input"
    /\ console' = [console EXCEPT !.pc = "exited",
                       !.last = [event |-> exception, line |-> <<>>,
                                 called |-> FALSE, failed |-> FALSE]]
    /\ UNCHANGED <<calc, chatVars>>

NextConsole ==
    \/ \E user_input \in Lines, agentCall \in {"answers", "raises", "interrupted"} :
           read_line(user_input, agentCall)
    \/ \E exception \in {"KeyboardInterrupt", "EOFError"} : input_raises(exception)

\* The components at rest.
CalcAtRest == calc = Pending(NoNode, <<>>)

ChatAtRest == InitChat /\ frontend = "src/chainlit.py"

ConsoleAtRest ==
    console = [app |-> "src/app.py", pc |-> "input", reads |-> 0, asked |-> <<>>,
               last |-> NoEvent]

InitAdapter ==
    /\ frontend = "src/chainlit.py"
    /\ checkpointer \in {[t \in ThreadIds |-> <<>>], EarlierExchange}
    /\ userSession = [s \in Sessions |-> [started |-> FALSE, agent |-> NoAgent,
                                          site |-> NoneStr]]
    /\ calls = [c \in Callers |-> NoCall]
    /\ shown = [s \in Sessions |-> NoMessage]
    /\ windowSeen = [s \in Sessions |-> NoneStr]
    /\ sessionLog = [s \in Sessions |-> [construction |-> "none", handled |-> 0]]
    /\ turns = 0

\* Each component is checked on its own, the other two at rest.
CalculatorAlone == InitCalc /\ ChatAtRest /\ ConsoleAtRest

ChatAlone == CalcAtRest /\ InitChat /\ ConsoleAtRest

AdapterAlone == CalcAtRest /\ InitAdapter /\ ConsoleAtRest

ConsoleAlone == CalcAtRest /\ ChatAtRest /\ InitConsole

SpecCalc == CalculatorAlone /\ [][calculate]_vars

SpecChat == ChatAlone /\ [][NextChat]_vars

SpecAdapter == AdapterAlone /\ [][NextAdapter]_vars

SpecConsole == ConsoleAlone /\ [][NextConsole]_vars

(***************************************************************************)
(* Properties of calculate.                                                *)
(***************************************************************************)
\* Every identifier an expression holds, at any depth: names and attribute
\* names, those of lambda bodies included.
RECURSIVE Identifiers(_), IdentifiersOfAll(_)
Identifiers(t) ==
    (IF t.k \in {"name", "attr"} THEN {t.id} ELSE {}) \cup IdentifiersOfAll(t.kids)

IdentifiersOfAll(ts) ==
    IF ts = <<>> THEN {} ELSE Identifiers(Head(ts)) \cup IdentifiersOfAll(Tail(ts))

Called == calc.stage # "idle"

ReturnsErrorString ==
    /\ calc.outcome = "returns"
    /\ calc.result.k = "str"

\* C1: an expression that parses and references an identifier outside the
\* allow-list, at any depth of its parse tree (a lambda body included), is
\* rejected by the name check: calculate returns an error string and eval is
\* never called.
C1_RejectedByNameCheck ==
    (/\ Called
     /\ Compile(calc.expr) # NoNode
     /\ ~(Identifiers(Compile(calc.expr)) \subseteq AllowedNames))
        => (calc.stage = "names" /\ ~calc.evaluated /\ ReturnsErrorString)

\* C2: whatever the expression, calculate returns; when compile, the name
\* check or eval raised, what it returns is the error string.
C2_NeverRaises ==
    Called =>
        /\ calc.outcome = "returns"
        /\ calc.stage \in {"compile", "names", "eval"} => calc.result.k = "str"

(***************************************************************************)
(* Properties of the chat sessions and of the agent adapters.              *)
(***************************************************************************)
\* C3: chat sessions share no mutable state: a session's agent calls use its
\* own agent handle and its own thread identifier, and the history such a
\* call reads holds only messages of that session.
C3_SessionsShareNothing ==
    \A s \in Sessions :
        (calls[s].made /\ calls[s].submitted) =>
            /\ \A i \in 1..Len(calls[s].seen) : calls[s].seen[i].origin = s
            /\ \A t \in Sessions \ {s} :
                   calls[t].made =>
                       /\ calls[t].agent # calls[s].agent
                       /\ calls[t].thread # calls[s].thread

\* C4: invoke_agent returns, whatever the input, the handle and the thread:
\* the error result {error: message} when the agent call faulted, the agent's
\* own result when it did not.
C4_ResultOrError ==
    \A c \in Callers :
        calls[c].made =>
            /\ calls[c].outcome = "returns"
            /\ calls[c].faulted =>
                   /\ calls[c].result.keys = {"error"}
                   /\ calls[c].result.error # ""
            /\ ~calls[c].faulted => calls[c].result = calls[c].agentResult

\* The agent call raised and invoke_agent gave the error result back.
C4_Witness ==
    /\ calls["api"].made
    /\ calls["api"].agent # NoAgent
    /\ calls["api"].faulted
    /\ calls["api"].outcome = "returns"
    /\ calls["api"].result = Result({"error"}, "Connection error.", <<>>)

LocalTools == {"get_current_time", "calculate"}

\* C5: an agent built by create_agent_with_mcp after the connection to the
\* tool server failed (it has no remote tool) still has the local tools.
C5_LocalToolsRemain ==
    \A s \in Sessions :
        (userSession[s].agent # NoAgent /\ "mcp_tool" \notin userSession[s].agent.tools)
            => LocalTools \subseteq userSession[s].agent.tools

\* The user message the agent received in a call that reached it.
Submitted(c) == c.result.messages[Len(c.seen) + 1].content

Reached(c) == c.made /\ ~c.faulted /\ c.result.messages # <<>>

\* C6: with a site, the text submitted to the agent is "Site: " + site +
\* "\n\n        User Question: " + the user text; with no site (None or "")
\* it is the user text.
C6_SiteTemplate ==
    \A c \in Callers :
        calls[c].made =>
            LET expected ==
                    IF calls[c].site.some /\ calls[c].site.v # ""
                    THEN "Site: " \o calls[c].site.v \o "\n\n        User Question: "
                             \o calls[c].text
                    ELSE calls[c].text
            IN  /\ calls[c].input = expected
                /\ Reached(calls[c]) => Submitted(calls[c]) = expected

\* "hello" with the site "example.com" reached the agent as the template.
C6_Witness ==
    /\ Reached(calls["api"])
    /\ calls["api"].site = Some("example.com")
    /\ calls["api"].text = "hello"
    /\ Submitted(calls["api"]) = "Site: example.com\n\n        User Question: hello"

\* C7: the formatter returns "Error: " + the error when the result has an
\* error key; otherwise the last message's content, or its string form when
\* it has no content attribute, when messages is there and not empty;
\* otherwise "No response generated.".
C7_FormatterOrder ==
    \A c \in Callers :
        calls[c].made =>
            LET result == calls[c].result
                last == result.messages[Len(result.messages)]
            IN  /\ "error" \in result.keys =>
                       calls[c].response = "Error: " \o result.error
                /\ ("error" \notin result.keys /\ "messages" \in result.keys
                        /\ result.messages # <<>>) =>
                       calls[c].response =
                           (IF last.hasContent THEN last.content ELSE Repr(last))
                /\ ("error" \notin result.keys
                        /\ ("messages" \notin result.keys \/ result.messages = <<>>)) =>
                       calls[c].response = "No response generated."

\* A result with both an error key and messages was formatted as the error.
C7_Witness ==
    /\ calls["api"].made
    /\ calls["api"].result.keys = {"error", "messages"}
    /\ calls["api"].result.messages # <<>>
    /\ calls["api"].response = "Error: agent said no"

SiteTemplate(site, text) == "Site: " \o site \o "\n\n        User Question: " \o text

\* C8 as stated: once a window message with a site was received in a
\* session, the user messages of the session reach the agent with the latest
\* such site injected.
C8_SiteInjected ==
    \A s \in Sessions :
        (calls[s].made /\ Truthy(calls[s].heard)) =>
            calls[s].input = SiteTemplate(calls[s].heard.v, calls[s].text)

\* C8, amended: that holds of the message hook of src/chainlit.py; the hook
\* of src/app/chainlit.py, which has no window-message hook beside it,
\* submits the user text as it is.
C8_SiteInjectedByChainlit ==
    \A s \in Sessions :
        calls[s].made =>
            /\ (frontend = "src/chainlit.py" /\ Truthy(calls[s].heard)) =>
                   /\ calls[s].input = SiteTemplate(calls[s].heard.v, calls[s].text)
                   /\ Reached(calls[s]) => Submitted(calls[s]) = calls[s].input
            /\ (frontend = "src/chainlit.py" /\ ~Truthy(calls[s].heard)) =>
                   calls[s].input = calls[s].text
            /\ frontend = "src/app/chainlit.py" => calls[s].input = calls[s].text

\* A session of src/chainlit.py whose site was replaced, and whose next
\* message reached the agent with the new site.
C8_Witness ==
    /\ frontend = "src/chainlit.py"
    /\ Reached(calls["s1"])
    /\ calls["s1"].heard = Some("adobe.com")
    /\ Submitted(calls["s1"]) = SiteTemplate("adobe.com", "hello")
    /\ \E i \in 1..Len(calls["s1"].seen) :
           calls["s1"].seen[i].content = SiteTemplate("example.com", "hello")

\* The session whose message hook handled a user message in this step.
Handles(s) == sessionLog'[s].handled # sessionLog[s].handled

\* The histories hold no message of session s.
NothingOf(s) ==
    \A t \in ThreadIds :
        \A i \in 1..Len(checkpointer[t]) : checkpointer[t][i].origin # s

\* C11: a session-start hook whose agent construction failed stores no agent
\* handle, and none is stored later; every user message of such a session is
\* answered with the notice "Agent not initialized", and the agent is not
\* called: no call is recorded and no history changes.  The other way round,
\* a session's agent call is made with the handle its session-start hook
\* stored after a construction that succeeded.
C11_NoAgentNoCall ==
    /\ [](\A s \in Sessions :
             /\ sessionLog[s].construction = "raises" =>
                    /\ userSession[s].agent = NoAgent
                    /\ ~calls[s].made
                    /\ NothingOf(s)
             /\ calls[s].made =>
                    /\ sessionLog[s].construction = "ok"
                    /\ userSession[s].agent # NoAgent
                    /\ calls[s].agent = userSession[s].agent)
    /\ [][\A s \in Sessions :
             (Handles(s) /\ sessionLog[s].construction = "raises") =>
                 /\ shown'[s] = Sent("System", NotInitialized)
                 /\ calls' = calls
                 /\ checkpointer' = checkpointer
                 /\ userSession' = userSession]_vars

\* Session s1, whose agent construction failed, got the notice for its
\* message, while session s2 has had an answer of its agent.
C11_Witness ==
    /\ sessionLog["s1"].construction = "raises"
    /\ sessionLog["s1"].handled = 1
    /\ shown["s1"] = Sent("System", NotInitialized)
    /\ ~calls["s1"].made
    /\ calls["s2"].made
    /\ ~calls["s2"].faulted

(***************************************************************************)
(* Properties of the console loop.                                         *)
(***************************************************************************)
\* line is word in some letter case.
InSomeCase(line, word) ==
    /\ Len(line) = Len(word)
    /\ \A i \in 1..Len(word) :
           \/ line[i] = word[i]
           \/ line[i] \in DOMAIN LowerOf /\ LowerOf[line[i]] = word[i]

SaysExit(line) ==
    \E word \in {<<"q", "u", "i", "t">>, <<"e", "x", "i", "t">>, <<"q">>} :
        InSomeCase(line, word)

\* C9: a line that is quit, exit or q in any letter case ends the loop and
\* the agent is not called; any other line is passed to the agent as it is,
\* and the loop reads on, also when the agent call failed.  (A line whose
\* agent call the user interrupted is the event KeyboardInterrupt, not the
\* event line.)
C9_ExitOrAsk ==
    console.last.event = "line" =>
        /\ SaysExit(console.last.line) =>
               /\ console.pc = "exited"
               /\ ~console.last.called
        /\ ~SaysExit(console.last.line) =>
               /\ console.pc = "input"
               /\ console.last.called
               /\ console.asked # <<>>
               /\ console.asked[Len(console.asked)] = console.last.line
        /\ Len(console.asked) <= console.reads
        /\ \A i \in 1..Len(console.asked) : ~SaysExit(console.asked[i])

\* The agent call of a line failed and the loop is reading again; before
\* that, QUIT in capitals had not been asked of the agent.
C9_Witness ==
    /\ console.last.event = "line"
    /\ console.last.failed
    /\ console.pc = "input"
    /\ console.asked = <<<<"h", "i">>, <<"q", "u", "i", "t", " ">>>>

\* Exit in mixed case ended the loop.
C9_ExitReached ==
    /\ console.last.line = <<"E", "x", "I", "t">>
    /\ console.pc = "exited"

\* The case of C10: a well-formed expression all of whose identifiers are on
\* the allow-list.
AllowListed == {"abs", "round", "min", "max", "sum", "pow", "divmod"}

OnlyAllowedIdentifiers ==
    /\ Called
    /\ calc.meant # NoNode
    /\ Identifiers(calc.meant) \subseteq AllowListed

\* The value of the expression its writer meant, by Python's rules.
MeantValue == Eval(calc.meant, "top", "object")

\* C10 as stated: such an expression passes the name check and calculate
\* returns its value, never an error string.
C10_AlwaysAValue ==
    OnlyAllowedIdentifiers =>
        /\ calc.stage = "returned"
        /\ calc.outcome = "returns"
        /\ calc.result.k # "str"
        /\ calc.result = MeantValue

\* C10, amended: such an expression passes the name check and is evaluated;
\* calculate returns its value when it has one, and the error string when
\* its evaluation raises (7 / 0, abs ( ), a name inside a lambda body).
\* 2 + 2 gives 4, pow(2, 10) gives 1024 and divmod(7, 2) gives (3, 1).
C10_ValueOrRuntimeError ==
    OnlyAllowedIdentifiers =>
        /\ calc.stage \in {"returned", "eval"}
        /\ calc.evaluated
        /\ calc.outcome = "returns"
        /\ calc.stage = "returned" => calc.result = MeantValue /\ ~IsRaise(MeantValue)
        /\ calc.stage = "eval" => calc.result.k = "str" /\ IsRaise(MeantValue)
        /\ calc.expr = <<"2", "+", "2">> => calc.result = IntV(4)
        /\ calc.expr = <<"pow", "(", "2", ",", "10", ")">> => calc.result = IntV(1024)
        /\ calc.expr = <<"divmod", "(", "7", ",", "2", ")">>
               => calc.result = TupleV(<<IntV(3), IntV(1)>>)

\* divmod(7, 2) was passed by the name check and came back as (3, 1).
C10_Witness ==
    /\ OnlyAllowedIdentifiers
    /\ calc.expr = <<"divmod", "(", "7", ",", "2", ")">>
    /\ calc.stage = "returned"
    /\ calc.result = TupleV(<<IntV(3), IntV(1)>>)

====
